---- MODULE Spec2Model ----
(***************************************************************************)
(* The content-to-index pipeline of scripts/load_content_v3.py:            *)
(* get_embeddings (batched requests to the embedding service, one retry    *)
(* on a rate-limit answer) and load_content (schema addition, delete,      *)
(* two embedding passes, row inserts in one transaction, post-load         *)
(* validation, process exit code).                                         *)
(*                                                                         *)
(* Python values are encoded as follows.  A string that the code builds    *)
(* (a row id) is a sequence of one-character strings.  A value that may    *)
(* be None is a sequence of length at most one: None is <<>> and the value *)
(* v is <<v>>.                                                             *)
(***************************************************************************)
EXTENDS Integers, Sequences, FiniteSets, TLC

VARIABLES
    sections,            \* json.load(parsed_content.json)
    db,                  \* committed rows of table chunks
    work,                \* rows as seen by the connection's open transaction
    follow_ups_column,   \* whether chunks has the follow_ups column
    pc,                  \* position of load_content / __main__
    run,                 \* "first" or "second" execution of the script
    prev,                \* summary of the previous execution
    content_texts, question_texts, section_indices,
    content_embeddings, question_embeddings,
    deleted, inserted, q_idx, section_idx, q_pos,
    checks,              \* results of the validation checks, None before
    validation_passed,   \* the verdict so far
    report,              \* the checks evaluated so far, in order, with results
    retval,              \* return value of load_content
    exit_code,           \* process exit status, None while running
    raised,              \* an exception propagated out of load_content
    drift,               \* another session changed the table after the commit
    stages,              \* stages the run has entered, in order
    texts, i, all_embeddings, response, epc, ret,   \* frame of get_embeddings
    requests,            \* requests.post calls of this run, in order
    doc,                 \* parse_content.py: the lines of the document, None
                         \* when the file does not exist
    ppc,                 \* position of parse_content.py
    parsed,              \* what it wrote to parsed_content.json, None before
    parse_exit           \* its exit status, None while running

loadVars == <<sections, db, work, follow_ups_column, pc, run, prev,
              content_texts, question_texts, section_indices,
              content_embeddings, question_embeddings,
              deleted, inserted, q_idx, section_idx, q_pos,
              checks, validation_passed, report, retval, exit_code, raised,
              drift, stages>>
embedVars == <<texts, i, all_embeddings, response, epc, ret>>
parseVars == <<doc, ppc, parsed, parse_exit>>
vars == <<loadVars, embedVars, requests, parseVars>>

-----------------------------------------------------------------------------
(* Bounds *)

MaxSections == 2
MaxTexts == 258
MaxBodyLines == 4
MaxDocLines == 5

(* Program constants *)

BATCH_SIZE == 128
IdMaxLen == 30

-----------------------------------------------------------------------------
(* Python values *)

None == <<>>
Some(v) == <<v>>
Min(a, b) == IF a < b THEN a ELSE b

DigitChars == <<"0", "1", "2", "3", "4", "5", "6", "7", "8", "9">>

\* str(n) for n >= 0, as used by the f-string of the row id
RECURSIVE Str(_)
Str(n) == IF n < 10 THEN <<DigitChars[n + 1]>>
          ELSE Str(n \div 10) \o <<DigitChars[(n % 10) + 1]>>

\* `not v` for a value that is None or a list
NotList(v) == v = None \/ v[1] = <<>>

\* `not v` for a value that is None or a bool
NotBool(v) == v = None \/ v[1] = FALSE

\* json.dumps(v): the serialised text
JsonDumps(v) == [json |-> v]

\* what a JSONB column holds (and hands back) for a serialised text
Jsonb(t) == t.json

-----------------------------------------------------------------------------
(* Inputs *)

Ids == { <<"A", "A">>, <<"B", "B">>, <<"A", "A", "_", "1">> }

\* what the document holds under each id: its body and its follow-ups
BodyOf(d) ==
    IF d = <<"A", "A">>
       THEN [content |-> "hello", follow_ups |-> <<>>]
    ELSE IF d = <<"B", "B">>
       THEN [content |-> "bye",
             follow_ups |-> << [text |-> "more", target |-> Some(<<"A", "A">>)],
                               [text |-> "go deeper", target |-> None] >>]
    ELSE [content |-> "hello",
          follow_ups |-> << [text |-> "back", target |-> Some(<<"A", "A">>)] >>]

QuestionLists == { <<>>, <<"what">>, <<"how", "why">> }

SectionPool ==
    { [id |-> d, content |-> BodyOf(d).content, questions |-> q,
       follow_ups |-> BodyOf(d).follow_ups] :
         d \in Ids, q \in QuestionLists }

SectionLists == UNION { [1..n -> SectionPool] : n \in 0..MaxSections }

\* lists with a section without questions between two sections with
\* questions
GapLists ==
    { << [id |-> <<"A", "A">>, content |-> BodyOf(<<"A", "A">>).content,
          questions |-> first,
          follow_ups |-> BodyOf(<<"A", "A">>).follow_ups],
         [id |-> <<"B", "B">>, content |-> BodyOf(<<"B", "B">>).content,
          questions |-> <<>>,
          follow_ups |-> BodyOf(<<"B", "B">>).follow_ups],
         [id |-> <<"C", "C">>, content |-> BodyOf(<<"C", "C">>).content,
          questions |-> last,
          follow_ups |-> BodyOf(<<"C", "C">>).follow_ups] >> :
        first, last \in QuestionLists \ {<<>>} }

\* the service's vector for a text
VoyageVector(t) == <<"vec", t>>

\* answers of the embedding service
Statuses == {200, 429, 500}

\* rows that may be in the table before the script runs
StoryRow ==
    [id |-> <<"S", "T", "1">>, chunk_type |-> "story", title |-> <<"S", "T">>,
     content |-> "story", embedding |-> VoyageVector("story"),
     question_text |-> None, question_embedding |-> None,
     follow_ups |-> None]
StaleRow ==
    [id |-> <<"A", "A">>, chunk_type |-> "content", title |-> <<"A", "A">>,
     content |-> "old", embedding |-> VoyageVector("old"),
     question_text |-> None, question_embedding |-> None,
     follow_ups |-> None]
PreRows == {StoryRow, StaleRow}

NoPrev == [clean |-> FALSE, passed |-> FALSE, rows |-> {}]

-----------------------------------------------------------------------------
(* get_embeddings *)

\* texts[i:i + BATCH_SIZE] with i 0-based
Batch(ts, k) == SubSeq(ts, k + 1, Min(k + BATCH_SIZE, Len(ts)))

\* mutant: the early return hands back None
EarlyReturnNone == None

\* `if not texts: return []`
EarlyReturnValue == Some(<<>>)

\* mutant: every answer other than 200 is retried
RetryOnAnyError(status) == status # 200

\* `if response.status_code == 429`
RetryOn(status) == status = 429

\* mutant: the resubmission is a `while` loop
MayRetryLoop(position, status) == status = 429

\* the resubmission is an `if` after the first post, not a loop
MayRetry(position, status) == position = "posted" /\ RetryOn(status)

\* `if response.status_code != 200`
IsError(status) == status # 200

\* the service's answer body for a batch: one vector per text, in order
ResponseData(batch) == [k \in 1..Len(batch) |-> [embedding |-> VoyageVector(batch[k])]]

\* [d["embedding"] for d in data["data"]]
BatchEmbeddings(data) == [k \in 1..Len(data) |-> data[k].embedding]

\* mutant: the batch's vectors are put in front
ExtendFront(all, batch_embeddings) == batch_embeddings \o all

\* all_embeddings.extend(batch_embeddings)
Extend(all, batch_embeddings) == all \o batch_embeddings

\* mutant: the next slice starts one text too far
NextStartSkips(k) == k + BATCH_SIZE + 1

\* range(0, len(texts), BATCH_SIZE): the next start
NextStart(k) == k + BATCH_SIZE

\* the pass a request belongs to
Pass == IF pc = "embed_content" THEN "content"
        ELSE IF pc = "embed_questions" THEN "questions" ELSE "call"

Post(status) ==
    /\ requests' = Append(requests,
                     [pass |-> Pass, start |-> i, input |-> Batch(texts, i),
                      status |-> status])
    /\ response' = Some(status)

Enter ==
    /\ epc = "entry"
    /\ IF texts = <<>>
          THEN /\ ret' = EarlyReturnValue
               /\ epc' = "returned"
               /\ UNCHANGED <<i, all_embeddings>>
          ELSE /\ i' = 0
               /\ all_embeddings' = <<>>
               /\ epc' = "loop"
               /\ ret' = None
    /\ response' = None
    /\ UNCHANGED <<texts, requests, loadVars>>
    /\ UNCHANGED parseVars

FirstPost ==
    /\ epc = "loop"
    /\ i < Len(texts)
    /\ \E status \in Statuses : Post(status)
    /\ epc' = "posted"
    /\ UNCHANGED <<texts, i, all_embeddings, ret, loadVars>>
    /\ UNCHANGED parseVars

RetryPost ==
    /\ epc \in {"posted", "reposted"}
    /\ MayRetry(epc, response[1])
    /\ \E status \in Statuses : Post(status)
    /\ epc' = "reposted"
    /\ UNCHANGED <<texts, i, all_embeddings, ret, loadVars>>
    /\ UNCHANGED parseVars

\* the request sequence of the batch is over: the status check runs
Answered == epc \in {"posted", "reposted"} /\ ~MayRetry(epc, response[1])

ErrorReturn ==
    /\ Answered
    /\ IsError(response[1])
    /\ ret' = None
    /\ epc' = "returned"
    /\ UNCHANGED <<texts, i, all_embeddings, response, requests, loadVars>>
    /\ UNCHANGED parseVars

Accept ==
    /\ Answered
    /\ ~IsError(response[1])
    /\ all_embeddings' =
          Extend(all_embeddings, BatchEmbeddings(ResponseData(Batch(texts, i))))
    /\ i' = NextStart(i)
    /\ epc' = "loop"
    /\ UNCHANGED <<texts, response, ret, requests, loadVars>>
    /\ UNCHANGED parseVars

Return ==
    /\ epc = "loop"
    /\ i >= Len(texts)
    /\ ret' = Some(all_embeddings)
    /\ epc' = "returned"
    /\ UNCHANGED <<texts, i, all_embeddings, response, requests, loadVars>>
    /\ UNCHANGED parseVars

get_embeddings == Enter \/ FirstPost \/ RetryPost \/ ErrorReturn \/ Accept \/ Return

\* get_embeddings(ts) is called
Call(ts) ==
    /\ texts' = ts
    /\ epc' = "entry"
    /\ ret' = None
    /\ response' = None
    /\ i' = 0
    /\ all_embeddings' = <<>>

-----------------------------------------------------------------------------
(* The store *)

\* mutant: DELETE FROM chunks WHERE chunk_type = 'content'
DeleteOwnRows(table) == { r \in table : r.chunk_type # "content" }

\* DELETE FROM chunks
DeleteFrom(table) == {}

\* id VARCHAR(30) PRIMARY KEY: the INSERT of row is accepted
\* mutant: a table without its primary key
CanInsertNoKey(table, row) == Len(row.id) <= IdMaxLen

\* INSERT INTO chunks succeeds: id is the PRIMARY KEY, a VARCHAR(30)
CanInsert(table, row) ==
    /\ \A r \in table : r.id # row.id
    /\ Len(row.id) <= IdMaxLen

\* mutant: conn.commit() inside the loop
CommitEachInsert(committed, working) == working

\* what is committed once an INSERT has been executed: the single
\* conn.commit() follows the loop, so nothing new is
AfterInsert(committed, working) == committed

\* the connection is dropped with its transaction open: the server rolls back
RolledBack(committed) == committed

-----------------------------------------------------------------------------
(* load_content *)

\* f"{section['id']}_{q_idx}"
RowId(sid, n) == sid \o <<"_">> \o Str(n)

\* mutant: the question row is stored without its question vector
QuestionRowNoVector(section, row_id, content_embedding, question, question_embedding) ==
    [id |-> row_id, chunk_type |-> "content", title |-> section.id,
     content |-> section.content, embedding |-> content_embedding,
     question_text |-> Some(question),
     question_embedding |-> None,
     follow_ups |-> Some(Jsonb(JsonDumps(section.follow_ups)))]

QuestionRow(section, row_id, content_embedding, question, question_embedding) ==
    [id |-> row_id, chunk_type |-> "content", title |-> section.id,
     content |-> section.content, embedding |-> content_embedding,
     question_text |-> Some(question),
     question_embedding |-> Some(question_embedding),
     follow_ups |-> Some(Jsonb(JsonDumps(section.follow_ups)))]

\* mutant: the content-only row is stored without the follow-ups
ContentRowNoFollowUps(section, content_embedding) ==
    [id |-> section.id, chunk_type |-> "content", title |-> section.id,
     content |-> section.content, embedding |-> content_embedding,
     question_text |-> None, question_embedding |-> None,
     follow_ups |-> Some(<<>>)]

ContentRow(section, content_embedding) ==
    [id |-> section.id, chunk_type |-> "content", title |-> section.id,
     content |-> section.content, embedding |-> content_embedding,
     question_text |-> None, question_embedding |-> None,
     follow_ups |-> Some(Jsonb(JsonDumps(section.follow_ups)))]

\* content_texts
ContentTexts(ss) == [k \in 1..Len(ss) |-> ss[k].content]

\* question_texts
RECURSIVE QuestionTexts(_)
QuestionTexts(ss) ==
    IF ss = <<>> THEN <<>>
    ELSE QuestionTexts(SubSeq(ss, 1, Len(ss) - 1)) \o ss[Len(ss)].questions

\* section_indices (0-based, as enumerate gives them)
RECURSIVE SectionIndices(_)
SectionIndices(ss) ==
    IF ss = <<>> THEN <<>>
    ELSE SectionIndices(SubSeq(ss, 1, Len(ss) - 1))
         \o [k \in 1..Len(ss[Len(ss)].questions) |-> Len(ss) - 1]

\* mutant: the result of get_embeddings is not tested
EmbeddingsNeverFailed(v) == FALSE

\* `if not content_embeddings` / `if not question_embeddings`
EmbeddingsFailed(v) == NotList(v)

\* mutant: `if passed is False: sys.exit(1)`
ExitCodeIsFalse(passed) == IF passed = Some(FALSE) THEN 1 ELSE 0

\* __main__: `if not passed: sys.exit(1)`, otherwise the script ends normally
ExitCode(passed) == IF NotBool(passed) THEN 1 ELSE 0

\* an exception leaves load_content: traceback, exit status 1, no commit
Raise ==
    /\ pc' = "exit"
    /\ raised' = TRUE
    /\ exit_code' = Some(1)
    /\ work' = RolledBack(db)
    /\ db' = db

AddColumn ==
    /\ pc = "alter"
    /\ \/ /\ follow_ups_column' = TRUE
          /\ pc' = "delete"
          /\ UNCHANGED <<db, work, raised, exit_code>>
       \/ /\ Raise
          /\ UNCHANGED follow_ups_column
    /\ UNCHANGED <<sections, run, prev, content_texts, question_texts,
                   section_indices, content_embeddings, question_embeddings,
                   deleted, inserted, q_idx, section_idx, q_pos, checks,
                   validation_passed, report, retval, drift, stages,
                   embedVars, requests>>
    /\ UNCHANGED parseVars

ClearChunks ==
    /\ pc = "delete"
    /\ \/ /\ work' = DeleteFrom(work)
          /\ deleted' = Cardinality(work) - Cardinality(work')
          /\ db' = work'
          /\ stages' = Append(stages, "delete")
          /\ pc' = "collect"
          /\ UNCHANGED <<raised, exit_code>>
       \/ /\ Raise
          /\ UNCHANGED <<deleted, stages>>
    /\ UNCHANGED <<sections, follow_ups_column, run, prev, content_texts,
                   question_texts, section_indices, content_embeddings,
                   question_embeddings, inserted, q_idx, section_idx, q_pos,
                   checks, validation_passed, report, retval, drift,
                   embedVars, requests>>
    /\ UNCHANGED parseVars

CollectTexts ==
    /\ pc = "collect"
    /\ content_texts' = ContentTexts(sections)
    /\ question_texts' = QuestionTexts(sections)
    /\ section_indices' = SectionIndices(sections)
    /\ pc' = "embed_content"
    /\ stages' = Append(stages, "embed_content")
    /\ Call(content_texts')
    /\ UNCHANGED <<sections, db, work, follow_ups_column, run, prev,
                   content_embeddings, question_embeddings, deleted,
                   inserted, q_idx, section_idx, q_pos, checks,
                   validation_passed, report, retval, exit_code, raised,
                   drift, requests>>
    /\ UNCHANGED parseVars

\* `return` with no value, then __main__
ReturnNone ==
    /\ pc' = "exit"
    /\ retval' = None
    /\ exit_code' = Some(ExitCode(None))

ContentDone ==
    /\ pc = "embed_content"
    /\ epc = "returned"
    /\ content_embeddings' = ret
    /\ IF EmbeddingsFailed(ret)
          THEN /\ ReturnNone
               /\ epc' = "idle"
               /\ UNCHANGED <<texts, i, all_embeddings, response, ret, stages>>
          ELSE /\ pc' = "embed_questions"
               /\ stages' = Append(stages, "embed_questions")
               /\ Call(question_texts)
               /\ UNCHANGED <<retval, exit_code>>
    /\ UNCHANGED <<sections, db, work, follow_ups_column, run, prev,
                   content_texts, question_texts, section_indices,
                   question_embeddings, deleted, inserted, q_idx,
                   section_idx, q_pos, checks, validation_passed, report,
                   raised, drift, requests>>
    /\ UNCHANGED parseVars

QuestionsDone ==
    /\ pc = "embed_questions"
    /\ epc = "returned"
    /\ question_embeddings' = ret
    /\ epc' = "idle"
    /\ IF EmbeddingsFailed(ret)
          THEN /\ ReturnNone
               /\ UNCHANGED <<stages, inserted, q_idx, section_idx, q_pos>>
          ELSE /\ pc' = "insert"
               /\ stages' = Append(stages, "insert")
               /\ inserted' = 0
               /\ q_idx' = 0
               /\ section_idx' = 0
               /\ q_pos' = 0
               /\ UNCHANGED <<retval, exit_code>>
    /\ UNCHANGED <<sections, db, work, follow_ups_column, run, prev,
                   content_texts, question_texts, section_indices,
                   content_embeddings, deleted, checks, validation_passed,
                   report, raised, drift, texts, i, all_embeddings, response,
                   ret, requests>>
    /\ UNCHANGED parseVars

\* mutant: the question vector is looked up by the question's index within
\* its section
PendingRowLocalVector ==
    LET section == sections[section_idx + 1]
    IN  IF q_pos < Len(section.questions)
           THEN QuestionRow(section, RowId(section.id, q_idx + 1),
                            content_embeddings[1][section_idx + 1],
                            section.questions[q_pos + 1],
                            question_embeddings[1][q_pos + 1])
           ELSE ContentRow(section, content_embeddings[1][section_idx + 1])

\* mutant: the questions of a section are inserted last to first
PendingRowReversed ==
    LET section == sections[section_idx + 1]
    IN  IF q_pos < Len(section.questions)
           THEN QuestionRow(section, RowId(section.id, q_idx + 1),
                            content_embeddings[1][section_idx + 1],
                            section.questions[Len(section.questions) - q_pos],
                            question_embeddings[1][q_idx + 1])
           ELSE ContentRow(section, content_embeddings[1][section_idx + 1])

\* the row the next INSERT of the loop sends (inside the loop only)
PendingRow ==
    LET section == sections[section_idx + 1]
    IN  IF q_pos < Len(section.questions)
           THEN QuestionRow(section, RowId(section.id, q_idx + 1),
                            content_embeddings[1][section_idx + 1],
                            section.questions[q_pos + 1],
                            question_embeddings[1][q_idx + 1])
           ELSE ContentRow(section, content_embeddings[1][section_idx + 1])

InsertQuestionRow ==
    /\ pc = "insert"
    /\ section_idx < Len(sections)
    /\ q_pos < Len(sections[section_idx + 1].questions)
    /\ LET row == PendingRow
       IN  \/ /\ CanInsert(work, row)
              /\ work' = work \cup {row}
              /\ db' = AfterInsert(db, work')
              /\ inserted' = inserted + 1
              /\ q_idx' = q_idx + 1
              /\ q_pos' = q_pos + 1
              /\ UNCHANGED <<pc, raised, exit_code>>
           \/ /\ Raise
              /\ UNCHANGED <<inserted, q_idx, q_pos>>
    /\ UNCHANGED <<sections, follow_ups_column, run, prev, content_texts,
                   question_texts, section_indices, content_embeddings,
                   question_embeddings, deleted, section_idx, checks,
                   validation_passed, report, retval, drift, stages,
                   embedVars, requests>>
    /\ UNCHANGED parseVars

InsertContentRow ==
    /\ pc = "insert"
    /\ section_idx < Len(sections)
    /\ q_pos >= Len(sections[section_idx + 1].questions)
    /\ LET row == PendingRow
       IN  \/ /\ CanInsert(work, row)
              /\ work' = work \cup {row}
              /\ db' = AfterInsert(db, work')
              /\ inserted' = inserted + 1
              /\ section_idx' = section_idx + 1
              /\ q_pos' = 0
              /\ UNCHANGED <<pc, raised, exit_code>>
           \/ /\ Raise
              /\ UNCHANGED <<inserted, section_idx, q_pos>>
    /\ UNCHANGED <<sections, follow_ups_column, run, prev, content_texts,
                   question_texts, section_indices, content_embeddings,
                   question_embeddings, deleted, q_idx, checks,
                   validation_passed, report, retval, drift, stages,
                   embedVars, requests>>
    /\ UNCHANGED parseVars

\* conn.commit() after the insert loop
CommitInserts ==
    /\ pc = "insert"
    /\ section_idx >= Len(sections)
    /\ \/ /\ db' = work
          /\ pc' = "validate"
          /\ UNCHANGED <<work, raised, exit_code>>
       \/ Raise
    /\ UNCHANGED <<sections, follow_ups_column, run, prev, content_texts,
                   question_texts, section_indices, content_embeddings,
                   question_embeddings, deleted, inserted, q_idx,
                   section_idx, q_pos, checks, validation_passed, report,
                   retval, drift, stages, embedVars, requests>>
    /\ UNCHANGED parseVars

-----------------------------------------------------------------------------
(* Post-load validation *)

\* mutant: only the titles of the pipeline's own kind are read
DbTitlesOfContent(table) ==
    { r.title : r \in { q \in table : q.chunk_type = "content" } }

\* SELECT DISTINCT title FROM chunks
DbTitles(table) == { r.title : r \in table }

\* set(s["id"] for s in sections)
ExpectedIds(ss) == { ss[k].id : k \in DOMAIN ss }

\* SELECT title, COUNT(*), COUNT(question_embedding) ... GROUP BY title,
\* read with .get(sid, {'rows': 0, 'questions': 0})
SectionCounts(table, sid) ==
    [rows |-> Cardinality({ r \in table : r.title = sid }),
     questions |-> Cardinality({ r \in table :
                       r.title = sid /\ r.question_embedding # None })]

\* mutant: only the titles the GROUP BY query returns are compared
MismatchesAmongStored(table, ss) ==
    { k \in DOMAIN ss :
        LET actual == SectionCounts(table, ss[k].id)
        IN  /\ ss[k].id \in DbTitles(table)
            /\ \/ actual.rows # Len(ss[k].questions) + 1
               \/ actual.questions # Len(ss[k].questions) }

\* the sections reported in `mismatches`
Mismatches(table, ss) ==
    { k \in DOMAIN ss :
        LET actual == SectionCounts(table, ss[k].id)
        IN  \/ actual.rows # Len(ss[k].questions) + 1
            \/ actual.questions # Len(ss[k].questions) }

\* the outcome of every check, as the straight-line code evaluates them
RunChecks(table, ss, ins) ==
    [row_count |-> Cardinality(table) = ins,
     chunk_type |-> Cardinality({ r \in table : r.chunk_type # "content" }) = 0,
     missing |-> ExpectedIds(ss) \ DbTitles(table) = {},
     extra |-> DbTitles(table) \ ExpectedIds(ss) = {},
     shape |-> Mismatches(table, ss) = {},
     rows_with_followups |->
         Cardinality({ r \in table : r.follow_ups # None /\ r.follow_ups # Some(<<>>) })]

\* rows another session may write into the table
ForeignRows ==
    { StoryRow,
      [id |-> <<"Z", "Z">>, chunk_type |-> "content", title |-> <<"Z", "Z">>,
       content |-> "other", embedding |-> VoyageVector("other"),
       question_text |-> None, question_embedding |-> None,
       follow_ups |-> None] }

\* Another session changes the committed table between the commit and the
\* validation queries: it deletes one row or inserts one.
Tamper ==
    /\ pc = "validate"
    /\ ~drift
    /\ run = "first"
    /\ \/ \E r \in db : db' = db \ {r}
       \/ \E r \in ForeignRows :
             /\ CanInsert(db, r)
             /\ db' = db \cup {r}
    /\ work' = db'
    /\ drift' = TRUE
    /\ UNCHANGED <<sections, follow_ups_column, pc, run, prev, content_texts,
                   question_texts, section_indices, content_embeddings,
                   question_embeddings, deleted, inserted, q_idx,
                   section_idx, q_pos, checks, validation_passed, report,
                   retval, exit_code, raised, stages, embedVars, requests>>
    /\ UNCHANGED parseVars

\* mutant: a failed check skips the remaining checks
ShortCircuit(entries, to) ==
    IF \A k \in DOMAIN entries : entries[k].ok THEN to ELSE "verdict"

\* where the code goes after a check: to the next one, whatever the result
NextCheck(entries, to) == to

\* mutant: the follow-up spot-check also sets validation_passed = False
BlockingAll(name) == TRUE

\* the checks whose failure sets validation_passed = False
Blocking(name) == name # "follow_ups"

\* validation_passed after the checks of one step
AfterChecks(passed, entries) ==
    passed /\ \A k \in DOMAIN entries :
                 Blocking(entries[k].check) => entries[k].ok

\* one step of the validation: its queries are answered from the committed
\* table, its results are reported, and the code moves on
CheckStep(from, to, entries) ==
    /\ pc = from
    /\ \/ /\ report' = report \o entries
          /\ validation_passed' = AfterChecks(validation_passed, entries)
          /\ pc' = NextCheck(entries, to)
          /\ UNCHANGED <<db, work, raised, exit_code>>
       \/ /\ Raise
          /\ UNCHANGED <<report, validation_passed>>
    /\ stages' = IF from = "validate" THEN Append(stages, "validate") ELSE stages
    /\ UNCHANGED <<sections, follow_ups_column, run, prev, content_texts,
                   question_texts, section_indices, content_embeddings,
                   question_embeddings, deleted, inserted, q_idx, section_idx,
                   q_pos, checks, retval, drift, embedVars, requests>>
    /\ UNCHANGED parseVars

\* 1. Row count check
CheckRowCount ==
    CheckStep("validate", "check_type",
              << [check |-> "row_count",
                  ok |-> RunChecks(db, sections, inserted).row_count] >>)

\* 2. All rows should be chunk_type='content'
CheckChunkType ==
    CheckStep("check_type", "check_ids",
              << [check |-> "chunk_type",
                  ok |-> RunChecks(db, sections, inserted).chunk_type] >>)

\* 3. Every section id exists in the table, and no other title does
CheckSectionIds ==
    CheckStep("check_ids", "check_shape",
              << [check |-> "missing",
                  ok |-> RunChecks(db, sections, inserted).missing],
                 [check |-> "extra",
                  ok |-> RunChecks(db, sections, inserted).extra] >>)

\* 4. Question counts per section
CheckShape ==
    CheckStep("check_shape", "check_follow_ups",
              << [check |-> "shape",
                  ok |-> RunChecks(db, sections, inserted).shape] >>)

\* 5., 6. Summary, then the follow-up spot-check: whether any row holds
\* follow-ups (rows_with_followups)
CheckFollowUps ==
    CheckStep("check_follow_ups", "verdict",
              << [check |-> "follow_ups",
                  ok |-> RunChecks(db, sections, inserted).rows_with_followups
                             > 0] >>)

\* Final verdict, `return validation_passed`, __main__
Verdict ==
    /\ pc = "verdict"
    /\ checks' = Some(RunChecks(db, sections, inserted))
    /\ retval' = Some(validation_passed)
    /\ exit_code' = Some(ExitCode(retval'))
    /\ pc' = "exit"
    /\ UNCHANGED <<sections, db, work, follow_ups_column, run, prev,
                   content_texts, question_texts, section_indices,
                   content_embeddings, question_embeddings, deleted, inserted,
                   q_idx, section_idx, q_pos, validation_passed, report,
                   raised, drift, stages, embedVars, requests>>
    /\ UNCHANGED parseVars

\* the post-load validation
Validate ==
    \/ CheckRowCount
    \/ CheckChunkType
    \/ CheckSectionIds
    \/ CheckShape
    \/ CheckFollowUps
    \/ Verdict

-----------------------------------------------------------------------------
(* parse_content.py: the lines of the document *)

QuestionsLabel == "**Questions that route here:**"
FollowUpsLabel == "**Suggested follow-ups:**"
DrillDownComment == "<!-- DRILL-DOWNS: BB -->"
Separator == "---"
Blank == ""

\* list items: a question, a follow-up with its target, a follow-up with
\* quoted text only, a follow-up whose bracket holds no well-formed id
ItemLines ==
    { "- what", "- \"more\" [BB]", "- \"go deeper\"", "- \"see also\" [bb]" }

\* the lines a section body is written with
BodyLines ==
    { "hello", QuestionsLabel, FollowUpsLabel, DrillDownComment, Separator,
      Blank } \cup ItemLines

\* the lines a document of several sections is written with
DocLines == { "## AA", "## BB", "## A", "hello", QuestionsLabel, "- what" }

\* one section "## AA" with every body of up to MaxBodyLines lines
OneSectionDocs ==
    { <<"## AA">> \o body :
        body \in UNION { [1..n -> BodyLines] : n \in 0..MaxBodyLines } }

\* every document of one to MaxDocLines lines
ManySectionDocs == UNION { [1..n -> DocLines] : n \in 1..MaxDocLines }

\* content.split('\n') of the documents the file may hold
Documents == OneSectionDocs \cup ManySectionDocs

-----------------------------------------------------------------------------
(* parse_content.py: parse_section *)

\* re.match(section_pattern, line): the id has two characters at least, so
\* "## A" is no header
SectionId(line) ==
    CASE line = "## AA" -> Some(<<"A", "A">>)
      [] line = "## BB" -> Some(<<"B", "B">>)
      [] OTHER -> None

\* the lines of '\n'.join(current_lines)
Join(current_lines) ==
    IF current_lines = <<>> THEN <<Blank>> ELSE current_lines

\* `- .+`
IsItem(line) == line \in ItemLines

\* line.strip()[2:].strip()
QuestionText(line) ==
    CASE line = "- what" -> "what"
      [] line = "- \"more\" [BB]" -> "\"more\" [BB]"
      [] line = "- \"go deeper\"" -> "\"go deeper\""
      [] line = "- \"see also\" [bb]" -> "\"see also\" [bb]"

\* mutant: only the text-and-target shape is read, there is no fallback
FollowUpWithTargetOnly(line) ==
    CASE line = "- \"more\" [BB]" ->
             Some([text |-> "more", target |-> Some(<<"B", "B">>)])
      [] OTHER -> None

\* the follow-up of a list line: `- "text" [TARGET.ID]`, else `- "text"`
\* with no target, else none
FollowUp(line) ==
    CASE line = "- \"more\" [BB]" ->
             Some([text |-> "more", target |-> Some(<<"B", "B">>)])
      [] line = "- \"go deeper\"" ->
             Some([text |-> "go deeper", target |-> None])
      [] line = "- \"see also\" [bb]" ->
             Some([text |-> "see also", target |-> None])
      [] OTHER -> None

\* `\s*` after the label: the first line from p on that is not blank
RECURSIVE SkipBlank(_, _)
SkipBlank(lines, p) ==
    IF p <= Len(lines) /\ lines[p] = Blank
       THEN SkipBlank(lines, p + 1)
       ELSE p

\* `(?:- .+\n?)+`: the last line of the run of items that starts at p
RECURSIVE ItemsEnd(_, _)
ItemsEnd(lines, p) ==
    IF p <= Len(lines) /\ IsItem(lines[p])
       THEN ItemsEnd(lines, p + 1)
       ELSE p - 1

\* the label, blank lines, one item at least: the last line of the match
\* that starts at line p, 0 when there is none
MatchAt(lines, p, label) ==
    IF lines[p] # label THEN 0
    ELSE LET q == SkipBlank(lines, p + 1)
             e == ItemsEnd(lines, q)
         IN  IF e >= q THEN e ELSE 0

\* re.search: the leftmost match
Search(lines, label) ==
    LET starts == { p \in 1..Len(lines) : MatchAt(lines, p, label) > 0 }
    IN  IF starts = {} THEN None
        ELSE LET p == CHOOSE a \in starts : \A b \in starts : a <= b
             IN  Some([start |-> p, end |-> MatchAt(lines, p, label)])

\* match.group(0): its lines, and whether it ends with the '\n' of its
\* last line
Group0(lines, m) ==
    [lines |-> SubSeq(lines, m.start, m.end), newline |-> m.end < Len(lines)]

\* match.group(1): the item lines
Group1(lines, m) == SubSeq(lines, SkipBlank(lines, m.start + 1), m.end)

\* content.replace(old, ''): every occurrence goes, left to right; an
\* occurrence of a text that ends with '\n' needs a line after it, and one
\* of a text that does not leaves an empty line
RECURSIVE Replace(_, _)
Replace(content, old) ==
    LET m == Len(old.lines)
    IN  IF content = <<>> THEN <<>>
        ELSE IF /\ Len(content) >= m
                /\ SubSeq(content, 1, m) = old.lines
                /\ old.newline => Len(content) > m
           THEN (IF old.newline THEN <<>> ELSE <<Blank>>)
                \o Replace(SubSeq(content, m + 1, Len(content)), old)
           ELSE <<Head(content)>> \o Replace(Tail(content), old)

\* content.replace('**Suggested follow-ups:**', '')
RemoveLabel(content) ==
    [k \in 1..Len(content) |->
        IF content[k] = FollowUpsLabel THEN Blank ELSE content[k]]

\* re.sub(r'<!--[^>]*-->\n?', '', content)
RECURSIVE RemoveComments(_)
RemoveComments(content) ==
    IF content = <<>> THEN <<>>
    ELSE IF Head(content) = DrillDownComment
       THEN (IF Len(content) > 1 THEN <<>> ELSE <<Blank>>)
            \o RemoveComments(Tail(content))
       ELSE <<Head(content)>> \o RemoveComments(Tail(content))

\* content.strip(): the empty text has no line
RECURSIVE Strip(_)
Strip(content) ==
    IF content = <<>> THEN <<>>
    ELSE IF Head(content) = Blank THEN Strip(Tail(content))
    ELSE IF content[Len(content)] = Blank
       THEN Strip(SubSeq(content, 1, Len(content) - 1))
    ELSE content

\* `if content.endswith('---'): content = content[:-3].strip()`
CutSeparator(content) ==
    IF content # <<>> /\ content[Len(content)] = Separator
       THEN Strip(SubSeq(content, 1, Len(content) - 1))
       ELSE content

\* the follow-ups of the lines of a block, in order
RECURSIVE FollowUps(_)
FollowUps(block) ==
    IF block = <<>> THEN <<>>
    ELSE FollowUp(Head(block)) \o FollowUps(Tail(block))

\* mutant: a section is emitted whatever its content
EmitAlways(section) == Some(section)

\* `if not content or content == '': return None`
Emit(section) == IF section.content = <<>> THEN None ELSE Some(section)

parse_section(section_id, raw) ==
    LET questions_match == Search(raw, QuestionsLabel)
        drilldown_match == \E k \in 1..Len(raw) : raw[k] = DrillDownComment
        followups_match == Search(raw, FollowUpsLabel)
        questions ==
            IF questions_match = None THEN <<>>
            ELSE LET block == Group1(raw, questions_match[1])
                 IN  [k \in 1..Len(block) |-> QuestionText(block[k])]
        follow_ups ==
            IF followups_match = None THEN <<>>
            ELSE FollowUps(Group1(raw, followups_match[1]))
        no_questions ==
            IF questions_match = None THEN raw
            ELSE Replace(raw, Group0(raw, questions_match[1]))
        no_followups ==
            IF followups_match = None THEN no_questions
            ELSE RemoveLabel(Replace(no_questions,
                                     Group0(raw, followups_match[1])))
        content == CutSeparator(Strip(RemoveComments(no_followups)))
    IN  Emit([id |-> section_id,
              questions |-> questions,
              content |-> content,
              drill_downs |-> IF drilldown_match THEN << <<"B", "B">> >>
                              ELSE <<>>,
              follow_ups |-> follow_ups])

-----------------------------------------------------------------------------
(* parse_content.py: parse_content_doc and main *)

\* the loop over the lines of the document, and the last section
RECURSIVE SplitLoop(_, _, _, _)
SplitLoop(lines, current_section, current_lines, found) ==
    LET saved ==
            IF current_section # None
               THEN Append(found, [id |-> current_section[1],
                                   raw |-> Join(current_lines)])
               ELSE found
    IN  IF lines = <<>> THEN saved
        ELSE IF SectionId(Head(lines)) # None
           THEN SplitLoop(Tail(lines), SectionId(Head(lines)), <<>>, saved)
        ELSE IF current_section # None
           THEN SplitLoop(Tail(lines), current_section,
                          Append(current_lines, Head(lines)), found)
        ELSE SplitLoop(Tail(lines), current_section, current_lines, found)

\* `for section in sections`: the sections parse_section returns
RECURSIVE ParseEach(_)
ParseEach(found) ==
    IF found = <<>> THEN <<>>
    ELSE parse_section(Head(found).id, Head(found).raw)
         \o ParseEach(Tail(found))

parse_content_doc(lines) == ParseEach(SplitLoop(lines, None, <<>>, <<>>))

\* main(): without the file it prints a message and returns; with it, the
\* parsed sections are written to parsed_content.json; the process ends
\* with status 0 either way
main ==
    /\ ppc = "start"
    /\ parsed' = IF doc = None THEN None ELSE Some(parse_content_doc(doc[1]))
    /\ parse_exit' = Some(0)
    /\ ppc' = "done"
    /\ UNCHANGED <<doc, loadVars, embedVars, requests>>

-----------------------------------------------------------------------------
(* Executions of the scripts *)

\* every request of the run was answered 200 and no store call failed,
\* and no other session touched the table
CleanRun ==
    /\ ~raised
    /\ ~drift
    /\ \A k \in DOMAIN requests : requests[k].status = 200

\* the (id, title, content) of the committed rows
Projection(table) ==
    { [id |-> r.id, title |-> r.title, content |-> r.content] : r \in table }

\* the script is run again on the same parsed_content.json, the table
\* being as the first run left it
Rerun ==
    /\ pc = "exit"
    /\ run = "first"
    /\ ~drift
    /\ run' = "second"
    /\ prev' = [clean |-> CleanRun,
                passed |-> CleanRun /\ retval = Some(TRUE),
                rows |-> IF CleanRun THEN Projection(db) ELSE {}]
    /\ pc' = "alter"
    /\ work' = db
    /\ content_texts' = <<>>
    /\ question_texts' = <<>>
    /\ section_indices' = <<>>
    /\ content_embeddings' = None
    /\ question_embeddings' = None
    /\ deleted' = 0
    /\ inserted' = 0
    /\ q_idx' = 0
    /\ section_idx' = 0
    /\ q_pos' = 0
    /\ checks' = None
    /\ validation_passed' = TRUE
    /\ report' = <<>>
    /\ retval' = None
    /\ exit_code' = None
    /\ raised' = FALSE
    /\ drift' = FALSE
    /\ stages' = <<>>
    /\ texts' = <<>>
    /\ i' = 0
    /\ all_embeddings' = <<>>
    /\ response' = None
    /\ epc' = "idle"
    /\ ret' = None
    /\ requests' = <<>>
    /\ UNCHANGED <<sections, db, follow_ups_column>>
    /\ UNCHANGED parseVars

InitLocals ==
    /\ run = "first"
    /\ prev = NoPrev
    /\ content_texts = <<>>
    /\ question_texts = <<>>
    /\ section_indices = <<>>
    /\ content_embeddings = None
    /\ question_embeddings = None
    /\ deleted = 0
    /\ inserted = 0
    /\ q_idx = 0
    /\ section_idx = 0
    /\ q_pos = 0
    /\ checks = None
    /\ validation_passed = TRUE
    /\ report = <<>>
    /\ retval = None
    /\ exit_code = None
    /\ raised = FALSE
    /\ drift = FALSE
    /\ stages = <<>>
    /\ i = 0
    /\ all_embeddings = <<>>
    /\ response = None
    /\ ret = None
    /\ requests = <<>>

\* parse_content.py is not running
ParseIdle ==
    /\ doc = None
    /\ ppc = "idle"
    /\ parsed = None
    /\ parse_exit = None

\* the script starts: parsed_content.json is loaded, the connection is open
LoadInit ==
    /\ ParseIdle
    /\ sections \in SectionLists \cup GapLists
    /\ db \in SUBSET PreRows
    /\ work = db
    /\ follow_ups_column \in BOOLEAN
    /\ pc = "alter"
    /\ texts = <<>>
    /\ epc = "idle"
    /\ InitLocals

\* texts of every length up to MaxTexts, pairwise distinct
InputTexts == { [k \in 1..n |-> k] : n \in 0..MaxTexts }

\* get_embeddings is called on its own
EmbedInit ==
    /\ ParseIdle
    /\ sections = <<>>
    /\ db = {}
    /\ work = {}
    /\ follow_ups_column = TRUE
    /\ pc = "call"
    /\ texts \in InputTexts
    /\ epc = "entry"
    /\ InitLocals

Init == LoadInit \/ EmbedInit

load_content ==
    \/ AddColumn
    \/ ClearChunks
    \/ CollectTexts
    \/ ContentDone
    \/ QuestionsDone
    \/ InsertQuestionRow
    \/ InsertContentRow
    \/ CommitInserts
    \/ Validate

Next == load_content \/ get_embeddings \/ Tamper \/ Rerun

Spec == Init /\ [][Next]_vars

\* parse_content.py is started on a document, or without one
ParseInit ==
    /\ doc \in {None} \cup { Some(d) : d \in Documents }
    /\ ppc = "start"
    /\ parsed = None
    /\ parse_exit = None
    /\ sections = <<>>
    /\ db = {}
    /\ work = {}
    /\ follow_ups_column = TRUE
    /\ pc = "idle"
    /\ texts = <<>>
    /\ epc = "idle"
    /\ InitLocals

SpecParse == ParseInit /\ [][main]_vars

-----------------------------------------------------------------------------
(* Properties *)

RECURSIVE SumQuestions(_)
SumQuestions(ss) ==
    IF ss = <<>> THEN 0
    ELSE Len(ss[1].questions) + SumQuestions(SubSeq(ss, 2, Len(ss)))

IsPrefix(s, t) == Len(s) <= Len(t) /\ s = SubSeq(t, 1, Len(s))

LastStage == IF stages = <<>> THEN "none" ELSE stages[Len(stages)]

Fatal(status) == status \notin {200, 429}

\* the requests of one batch: same pass, same start
SameBatch(a, b) == a.pass = b.pass /\ a.start = b.start

\* C1: a run on k >= 1 sections in which every embedding request succeeds
\* and no store operation fails ends with SUM(q_i + 1) rows in the store,
\* SUM(q_i) of them with a question vector.
C1_RowTotals ==
    (pc = "exit" /\ CleanRun /\ Len(sections) >= 1) =>
        /\ Cardinality(db) = SumQuestions(sections) + Len(sections)
        /\ Cardinality({ r \in db : r.question_embedding # None })
              = SumQuestions(sections)

\* C2: two successive clean runs on the same section list leave the same
\* (id, title, content) rows after the second run as after the first, and
\* both end with a passing verdict.
C2_Idempotent ==
    (pc = "exit" /\ run = "second" /\ prev.clean /\ CleanRun
       /\ Len(sections) >= 1) =>
        /\ prev.passed
        /\ retval = Some(TRUE)
        /\ Projection(db) = prev.rows

\* C3: the process exits with 0 exactly when the run reached validation and
\* the four blocking checks passed; a raised store error, a fatal answer or
\* an exhausted retry end it with a non-zero status.
C3_ExitCode ==
    pc = "exit" =>
        /\ exit_code \in {Some(0), Some(1)}
        /\ exit_code = Some(0) <=>
              /\ checks # None
              /\ checks[1].row_count
              /\ checks[1].chunk_type
              /\ checks[1].missing /\ checks[1].extra
              /\ checks[1].shape
        /\ raised => exit_code = Some(1)
        /\ (requests # <<>> /\ requests[Len(requests)].status # 200)
              => exit_code = Some(1)

C3_Witness ==
    /\ pc = "exit"
    /\ exit_code = Some(0)
    /\ checks # None
    /\ \E k \in DOMAIN requests : requests[k].status = 429

\* C4: the stages of a run happen in the order embed content, embed
\* questions, delete, insert, validate; the delete never precedes the end
\* of both embedding passes.
C4_StageOrder ==
    IsPrefix(stages, <<"embed_content", "embed_questions", "delete",
                       "insert", "validate">>)

\* C5: after an answer that is neither 200 nor 429 the batch is not
\* resubmitted, no later batch is requested, the run aborts and no row of
\* the run is inserted.
C5_FatalAnswer ==
    \A k \in DOMAIN requests :
        Fatal(requests[k].status) =>
            /\ k = Len(requests)
            /\ epc \in {"posted", "reposted", "returned", "idle"}
            /\ epc = "returned" => ret = None
            /\ pc \in {"call", "embed_content", "embed_questions", "exit"}
            /\ inserted = 0
            /\ work = db
            /\ pc = "exit" => (retval = None /\ exit_code = Some(1))

C5_Witness ==
    /\ pc = "exit"
    /\ requests # <<>>
    /\ requests[Len(requests)].pass = "questions"
    /\ Fatal(requests[Len(requests)].status)

\* C6: a batch answered 429 is resubmitted exactly once, unchanged; a
\* second 429 fails the call; no batch is submitted more than twice, and a
\* second submission only follows a 429 to the first.
C6_BoundedRetry ==
    /\ \A k \in DOMAIN requests :
          Cardinality({ j \in DOMAIN requests :
                          SameBatch(requests[j], requests[k]) }) <= 2
    /\ \A j, k \in DOMAIN requests :
          (j < k /\ SameBatch(requests[j], requests[k])) =>
              /\ k = j + 1
              /\ requests[j].status = 429
              /\ requests[k].input = requests[j].input
    /\ \A k \in DOMAIN requests :
          requests[k].status = 429 =>
              IF k > 1 /\ SameBatch(requests[k - 1], requests[k])
                 THEN /\ k = Len(requests)
                      /\ epc \in {"reposted", "returned", "idle"}
                      /\ epc = "returned" => ret = None
                 ELSE \/ k = Len(requests) /\ epc = "posted"
                      \/ k < Len(requests)
                           /\ SameBatch(requests[k], requests[k + 1])

C6_Witness ==
    \E k \in DOMAIN requests :
        /\ k > 1
        /\ requests[k].start = BATCH_SIZE
        /\ requests[k].status = 429
        /\ requests[k - 1].start = BATCH_SIZE
        /\ epc = "returned"

\* C7: a successful get_embeddings(texts) returns as many vectors as there
\* are texts, the k-th being the service's vector for the k-th text.
C7_OrderedVectors ==
    (epc = "returned" /\ ret # None) =>
        /\ Len(ret[1]) = Len(texts)
        /\ \A k \in 1..Len(texts) : ret[1][k] = VoyageVector(texts[k])

C7_Witness ==
    /\ epc = "returned"
    /\ ret # None
    /\ Len(texts) > 2 * BATCH_SIZE
    /\ \E k \in DOMAIN requests : requests[k].status = 429

\* C8: get_embeddings of the empty list returns the empty list and sends
\* no request.
C8_EmptyInput ==
    (epc = "returned" /\ texts = <<>>) =>
        /\ ret = Some(<<>>)
        /\ \A k \in DOMAIN requests : requests[k].pass # Pass

C8_Witness ==
    /\ epc = "returned"
    /\ texts = <<>>
    /\ pc = "embed_questions"
    /\ requests # <<>>

\* C9 (as claimed): a row whose kind is not the pipeline's marker is still
\* in the store after the delete step.
C9_ForeignRowsKept ==
    [][(pc = "delete" /\ pc' = "collect") =>
          \A r \in db : r.chunk_type # "content" => r \in db']_vars

\* C9 (amended): the delete step removes every row of the table, whatever
\* its kind; once it has committed the table is empty.
C9_DeleteClearsAll ==
    pc = "collect" => (db = {} /\ work = {})

C9_Witness ==
    /\ pc = "collect"
    /\ deleted = Cardinality(PreRows)
    /\ db = {}

\* C10 (as claimed): after a store failure during the insert step, the
\* rows inserted before the failure are in the store.
C10_PartialRowsKept ==
    (pc = "exit" /\ raised /\ LastStage = "insert" /\ inserted > 0) =>
        Cardinality(db) = inserted

\* C10 (amended): after a store failure during the insert step the run
\* ends with a raised error and none of the rows inserted before the
\* failure is in the store, which the committed delete left empty.
C10_PartialRowsDiscarded ==
    (pc = "exit" /\ raised /\ LastStage = "insert" /\ inserted > 0) =>
        /\ db = {}
        /\ work = {}
        /\ checks = None
        /\ exit_code = Some(1)

C10_Witness ==
    /\ pc = "exit"
    /\ raised
    /\ LastStage = "insert"
    /\ inserted = 2

ValidationPcs ==
    {"validate", "check_type", "check_ids", "check_shape", "check_follow_ups",
     "verdict"}

\* between the delete step and the end of the insert step
ReloadWindow == {"collect", "embed_content", "embed_questions", "insert"}

DistinctIds(ss) ==
    \A j, k \in 1..Len(ss) : j # k => ss[j].id # ss[k].id

\* C11 (as stated): during the insert step a concurrent reader of the
\* store observes the rows inserted so far, a partially populated index.
C11_PartialIndexVisible ==
    pc = "insert" => db = work

\* C11 (amended): between the delete step and the end of the insert step
\* a concurrent reader observes an empty index and nothing else; the rows
\* inserted so far are never visible to it.
C11_ReaderSeesEmptyOnly ==
    pc \in ReloadWindow => db = {}

C11_Witness ==
    /\ pc = "insert"
    /\ inserted >= 2
    /\ Cardinality(work) = inserted
    /\ section_idx < Len(sections)
    /\ db = {}

\* C12: for a section list with pairwise distinct ids, the id of the row
\* the load is about to insert differs from the id of every row it has
\* inserted.
C12_DistinctRowIds ==
    (pc = "insert" /\ section_idx < Len(sections) /\ DistinctIds(sections)) =>
        \A r \in work : r.id # PendingRow.id

\* C13: the row of the j-th question of a section has the id built from
\* the section's id and j, whatever the other sections are.
C13_IdFromSectionAndIndex ==
    pc = "insert" =>
        \A k \in 1..Len(sections) :
            k <= section_idx =>
                \A j \in 1..Len(sections[k].questions) :
                    \E r \in work :
                        /\ r.id = RowId(sections[k].id, j)
                        /\ r.title = sections[k].id
                        /\ r.question_text = Some(sections[k].questions[j])

\* the insert step has been committed and no other session has written
LoadSucceeded ==
    /\ ~drift
    /\ \/ pc \in ValidationPcs
       \/ pc = "exit" /\ LastStage = "validate"

C19_VerdictIsConjunction ==
    (pc = "exit" /\ checks # None) =>
        retval = Some(/\ checks[1].row_count
                      /\ checks[1].chunk_type
                      /\ checks[1].missing
                      /\ checks[1].extra
                      /\ checks[1].shape)

C19_Witness ==
    /\ pc = "exit"
    /\ retval = Some(TRUE)
    /\ Len(report) = 6
    /\ report[6].check = "follow_ups"
    /\ ~report[6].ok

CheckNames ==
    <<"row_count", "chunk_type", "missing", "extra", "shape", "follow_ups">>

\* the number of results reported when the run is at a position
Reported(at) ==
    CASE at = "validate" -> 0
      [] at = "check_type" -> 1
      [] at = "check_ids" -> 2
      [] at = "check_shape" -> 4
      [] at = "check_follow_ups" -> 5
      [] OTHER -> 6

\* C20: a run in validation has evaluated and reported every check up to
\* its position, whatever the earlier results, and a run that reaches
\* the verdict has reported all of them, each with the result the store
\* gives.
C20_AllChecksReported ==
    (pc \in ValidationPcs \/ (pc = "exit" /\ checks # None)) =>
        /\ Len(report) = Reported(pc)
        /\ \A k \in 1..Len(report) : report[k].check = CheckNames[k]
        /\ LET c == RunChecks(db, sections, inserted)
               expected == << c.row_count, c.chunk_type, c.missing, c.extra,
                              c.shape >>
           IN  \A k \in 1..Len(report) :
                   k <= 5 => report[k].ok = expected[k]

C20_Witness ==
    /\ pc = "exit"
    /\ checks # None
    /\ Len(report) = 6
    /\ ~report[1].ok
    /\ ~report[5].ok
    /\ retval = Some(FALSE)

\* the documents parse_content.py has finished with
Parsed == ppc = "done" /\ doc # None

\* C15: every section the parser emits has a non-empty id, and no two
\* sections emitted for one document have the same id.
C15_UniqueIds ==
    Parsed =>
        /\ \A j \in 1..Len(parsed[1]) : parsed[1][j].id # <<>>
        /\ \A j, k \in 1..Len(parsed[1]) :
               j # k => parsed[1][j].id # parsed[1][k].id

\* the header lines of a document
Headers(lines) == { h \in 1..Len(lines) : SectionId(lines[h]) # None }

\* the lines between header h and the next header
BodyAt(lines, h) ==
    LET later == { g \in Headers(lines) : g > h }
        last == IF later = {} THEN Len(lines)
                ELSE (CHOOSE g \in later : \A f \in later : g <= f) - 1
    IN  SubSeq(lines, h + 1, last)

Labels == {QuestionsLabel, FollowUpsLabel}

\* a body made of nothing but blank lines, annotations, at most one
\* questions block and at most one follow-ups block, each a label with
\* its list of items
OnlyBlocks(body) ==
    /\ \A k \in 1..Len(body) :
           body[k] \in {Blank, DrillDownComment} \cup Labels \cup ItemLines
    /\ \A label \in Labels :
           Cardinality({ k \in 1..Len(body) : body[k] = label }) <= 1
    /\ \A k \in 1..Len(body) :
           body[k] \in Labels =>
               \E e \in (k + 1)..Len(body) :
                   /\ body[e] \in ItemLines
                   /\ \A q \in (k + 1)..(e - 1) : body[q] = Blank
    /\ \A k \in 1..Len(body) :
           body[k] \in ItemLines =>
               \E p \in 1..(k - 1) :
                   /\ body[p] \in Labels \cup ItemLines
                   /\ \A q \in (p + 1)..(k - 1) : body[q] = Blank
                   /\ body[p] \in ItemLines => p = k - 1

\* C17: a section whose body holds only its questions block, its
\* follow-ups block, annotations and blank lines is not emitted: the
\* parser emits at most one section per header with another kind of body,
\* and none under an id whose every body is of that kind.
C17_EmptyBodyNotEmitted ==
    Parsed =>
        LET lines == doc[1]
            kept == { h \in Headers(lines) : ~OnlyBlocks(BodyAt(lines, h)) }
        IN  /\ Len(parsed[1]) <= Cardinality(kept)
            /\ \A j \in 1..Len(parsed[1]) :
                   \E h \in kept : SectionId(lines[h]) = Some(parsed[1][j].id)

C17_Witness ==
    /\ ppc = "done"
    /\ doc = Some(<<"## AA", QuestionsLabel, "- what">>)
    /\ parsed = Some(<<>>)

\* list items made of a quoted text, with a target, without one, or with
\* a bracket that holds no id
QuotedItems == { "- \"more\" [BB]", "- \"go deeper\"", "- \"see also\" [bb]" }

QuotedOnly == [ l \in { "- \"go deeper\"", "- \"see also\" [bb]" } |->
                  IF l = "- \"go deeper\"" THEN "go deeper" ELSE "see also" ]

\* a document of one section whose body has one follow-ups label,
\* directly followed by its list
OneFollowUpList(lines) ==
    /\ Headers(lines) = {1}
    /\ \E p \in 2..(Len(lines) - 1) :
           /\ lines[p] = FollowUpsLabel
           /\ lines[p + 1] \in ItemLines
           /\ \A q \in 2..Len(lines) : lines[q] = FollowUpsLabel => q = p

\* C18: in an emitted section, every item of the follow-ups list that is a
\* quoted text with no well-formed target is emitted with that text and
\* no target, at its place among the quoted items of the list; no quoted
\* item is dropped, and the parse ends with a section list.
C18_QuotedOnlyFollowUp ==
    Parsed =>
        /\ parsed # None
        /\ (OneFollowUpList(doc[1]) /\ Len(parsed[1]) = 1) =>
               LET lines == doc[1]
                   p == CHOOSE q \in 2..Len(lines) : lines[q] = FollowUpsLabel
                   e == CHOOSE q \in (p + 1)..Len(lines) :
                            /\ \A k \in (p + 1)..q : lines[k] \in ItemLines
                            /\ q < Len(lines) => lines[q + 1] \notin ItemLines
                   out == parsed[1][1].follow_ups
                   Rank(k) == Cardinality({ j \in (p + 1)..k :
                                              lines[j] \in QuotedItems })
               IN  /\ Len(out) = Rank(e)
                   /\ \A k \in (p + 1)..e :
                          lines[k] \in DOMAIN QuotedOnly =>
                              out[Rank(k)] = [text |-> QuotedOnly[lines[k]],
                                              target |-> None]

C18_Witness ==
    /\ ppc = "done"
    /\ doc = Some(<<"## AA", "hello", FollowUpsLabel, "- \"go deeper\"",
                    "- \"more\" [BB]">>)
    /\ parsed # None
    /\ Len(parsed[1]) = 1
    /\ Len(parsed[1][1].follow_ups) = 2
    /\ parsed[1][1].follow_ups[1] = [text |-> "go deeper", target |-> None]

\* one row of the committed load was removed before the checks ran, and
\* the run has its verdict
OneRowRemoved ==
    /\ pc = "exit"
    /\ checks # None
    /\ drift
    /\ Cardinality(db) = inserted - 1

\* C21: when exactly one row is removed after a successful load and the
\* checks are then evaluated, the row count check fails, the shape check
\* fails and the verdict is false, whichever row it was.
C21_RemovedRowDetected ==
    OneRowRemoved =>
        /\ ~report[1].ok
        /\ ~report[5].ok
        /\ retval = Some(FALSE)
        /\ exit_code = Some(1)

C21_Witness ==
    /\ OneRowRemoved
    /\ \E k \in 1..Len(sections) :
           /\ Len(sections[k].questions) = 0
           /\ sections[k].id \notin DbTitles(db)
    /\ ~report[1].ok
    /\ ~report[5].ok

\* C22: when the document is missing, the parse stage signals failure to
\* its caller: it does not end with the status of a successful run.
C22_MissingFileFails ==
    (ppc = "done" /\ doc = None) => parse_exit # Some(0)

\* the requests of the current call of get_embeddings, in order
CallRequests == SelectSeq(requests, LAMBDA r : r.pass = Pass)

\* the inputs of the requests that were answered 200, one after another
RECURSIVE AcceptedInput(_)
AcceptedInput(rs) ==
    IF rs = <<>> THEN <<>>
    ELSE (IF Head(rs).status = 200 THEN Head(rs).input ELSE <<>>)
         \o AcceptedInput(Tail(rs))

\* C23: every request of a call carries one slice of at most BATCH_SIZE
\* consecutive texts, the slices are submitted in input order, the
\* accepted slices of a successful call make up the input, and a call
\* with no rate-limited request makes ceil(n / BATCH_SIZE) requests.
C23_Batches ==
    epc # "idle" =>
        LET rs == CallRequests
            n == Len(texts)
        IN  /\ \A k \in 1..Len(rs) :
                   /\ rs[k].start % BATCH_SIZE = 0
                   /\ rs[k].start < n
                   /\ Len(rs[k].input) \in 1..BATCH_SIZE
                   /\ \A j \in 1..Len(rs[k].input) :
                          rs[k].input[j] = texts[rs[k].start + j]
                   /\ \/ Len(rs[k].input) = BATCH_SIZE
                      \/ rs[k].start + Len(rs[k].input) = n
            /\ \A j, k \in 1..Len(rs) : j < k => rs[j].start <= rs[k].start
            /\ (epc = "returned" /\ ret # None) =>
                   /\ AcceptedInput(rs) = texts
                   /\ (\A k \in 1..Len(rs) : rs[k].status # 429) =>
                          Len(rs) = (n + BATCH_SIZE - 1) \div BATCH_SIZE

C23_Witness ==
    /\ epc = "returned"
    /\ ret # None
    /\ Len(texts) = 2 * BATCH_SIZE + 2
    /\ Len(CallRequests) = 3
    /\ Len(CallRequests[3].input) = 2

\* the inserts a load of a section list makes, in order: for each section
\* its questions in question order, then its content-only row
RECURSIVE ExpectedInserts(_)
ExpectedInserts(ss) ==
    IF ss = <<>> THEN <<>>
    ELSE [k \in 1..Len(ss[1].questions) |->
             [title |-> ss[1].id, question_text |-> Some(ss[1].questions[k])]]
         \o << [title |-> ss[1].id, question_text |-> None] >>
         \o ExpectedInserts(Tail(ss))

\* C24: every insert of the loop adds the next row of the expected order
\* (section by section, questions in order, then the content-only row)
\* and adds one to `inserted`; the loop ends when `inserted` is the number
\* of rows of that order.
C24_InsertOrder ==
    [][ /\ (pc = "insert" /\ pc' = "insert" /\ work' # work) =>
            /\ inserted' = inserted + 1
            /\ inserted' <= Len(ExpectedInserts(sections))
            /\ \E r \in work' \ work :
                   /\ work' = work \cup {r}
                   /\ r.title = ExpectedInserts(sections)[inserted'].title
                   /\ r.question_text =
                          ExpectedInserts(sections)[inserted'].question_text
        /\ (pc = "insert" /\ pc' = "insert") =>
               (work' # work \/ inserted' = inserted)
        /\ (pc = "insert" /\ pc' = "validate") =>
               inserted = Len(ExpectedInserts(sections))
      ]_vars

C24_Witness ==
    /\ pc = "validate"
    /\ Len(sections) = 2
    /\ Len(sections[1].questions) = 2
    /\ Len(sections[2].questions) = 1
    /\ inserted = 5
    /\ Cardinality(db) = 5

\* the rows the load has written: inside the loop the rows of the open
\* transaction, after the commit the rows of the table
Written == IF pc = "insert" THEN work ELSE db

\* C25: every row carries the vector of its section's content; a row with
\* a question text carries the vector of exactly that text, a row without
\* one carries no question vector; after the load every question of every
\* section has its row and every section its content-only row.
C25_OwnVectors ==
    (pc = "insert" \/ LoadSucceeded) =>
        /\ \A r \in Written :
               /\ \E k \in 1..Len(sections) :
                      /\ r.title = sections[k].id
                      /\ r.embedding = VoyageVector(sections[k].content)
                      /\ r.question_text # None =>
                             \E j \in 1..Len(sections[k].questions) :
                                 sections[k].questions[j] = r.question_text[1]
               /\ IF r.question_text = None
                     THEN r.question_embedding = None
                     ELSE r.question_embedding =
                              Some(VoyageVector(r.question_text[1]))
        /\ LoadSucceeded =>
               \A k \in 1..Len(sections) :
                   /\ \E r \in db :
                          r.title = sections[k].id /\ r.question_text = None
                   /\ \A j \in 1..Len(sections[k].questions) :
                          \E r \in db :
                              /\ r.title = sections[k].id
                              /\ r.question_text =
                                     Some(sections[k].questions[j])

C25_Witness ==
    /\ pc = "exit"
    /\ exit_code = Some(0)
    /\ Len(sections) = 3
    /\ Len(sections[1].questions) = 1
    /\ Len(sections[2].questions) = 0
    /\ Len(sections[3].questions) = 2
    /\ Cardinality(db) = 6

\* C26: every row the load writes has the pipeline's kind, the id of its
\* section as title, the section's body as content and the section's
\* follow-up list as follow-ups, so the rows of one section agree on
\* these four fields.
C26_SectionFields ==
    (pc = "insert" \/ LoadSucceeded) =>
        /\ \A r \in Written :
               /\ r.chunk_type = "content"
               /\ \E k \in 1..Len(sections) :
                      /\ r.title = sections[k].id
                      /\ r.content = sections[k].content
                      /\ r.follow_ups = Some(sections[k].follow_ups)
        /\ \A r1, r2 \in Written :
               r1.title = r2.title =>
                   /\ r1.chunk_type = r2.chunk_type
                   /\ r1.content = r2.content
                   /\ r1.follow_ups = r2.follow_ups

C26_Witness ==
    /\ pc = "exit"
    /\ exit_code = Some(0)
    /\ \E k \in 1..Len(sections) :
           /\ Len(sections[k].questions) = 2
           /\ Len(sections[k].follow_ups) = 2
           /\ Cardinality({ r \in db :
                  /\ r.title = sections[k].id
                  /\ r.follow_ups = Some(sections[k].follow_ups) }) = 3

\* C27: check 3 passes exactly when the distinct titles of the store are
\* the parsed section ids; a parsed id without a row is reported as
\* missing, a title that is no parsed id as extra, and either makes the
\* verdict false.
C27_Coverage ==
    (pc = "exit" /\ checks # None) =>
        LET ids == { sections[k].id : k \in 1..Len(sections) }
            titles == { r.title : r \in db }
        IN  /\ report[3].ok <=> \A d \in ids : \E r \in db : r.title = d
            /\ report[4].ok <=> \A r \in db : r.title \in ids
            /\ (report[3].ok /\ report[4].ok) <=> titles = ids
            /\ titles # ids => (retval = Some(FALSE) /\ exit_code = Some(1))

C27_Witness ==
    /\ pc = "exit"
    /\ checks # None
    /\ report[3].ok
    /\ ~report[4].ok
    /\ report[2].ok
    /\ retval = Some(FALSE)

\* a label with its list of items starts at line k of a text
BlockStarts(text, k) ==
    /\ text[k] \in Labels
    /\ \E e \in (k + 1)..Len(text) :
           /\ text[e] \in ItemLines
           /\ \A q \in (k + 1)..(e - 1) : text[q] = Blank

\* C28: the body of every emitted section holds no questions block, no
\* follow-ups block and no annotation.
C28_BodyHasNoBlocks ==
    Parsed =>
        \A j \in 1..Len(parsed[1]) :
            \A k \in 1..Len(parsed[1][j].content) :
                /\ parsed[1][j].content[k] # DrillDownComment
                /\ ~BlockStarts(parsed[1][j].content, k)

\* load_content returned before its insert loop
ReturnedEarly ==
    /\ pc = "exit"
    /\ ~raised
    /\ LastStage \in {"embed_content", "embed_questions"}

\* a call of get_embeddings failed: a fatal answer, or a rate-limit answer
\* to a resubmission
CallFailed ==
    \E k \in DOMAIN requests :
        \/ Fatal(requests[k].status)
        \/ /\ k > 1
           /\ SameBatch(requests[k - 1], requests[k])
           /\ requests[k].status = 429

\* C29: a run that raises no error returns before inserting exactly when
\* one of its two get_embeddings calls failed; when both succeed it goes
\* on to insert and to validate.
C29_ReturnIffCallFailed ==
    (pc = "exit" /\ ~raised) =>
        /\ ReturnedEarly <=> CallFailed
        /\ ~CallFailed => (LastStage = "validate" /\ checks # None)

\* the content pass failed: a fatal answer, or a rate-limit answer to a
\* resubmission, to one of its requests
ContentPassFailed ==
    \E k \in DOMAIN requests :
        /\ requests[k].pass = "content"
        /\ \/ Fatal(requests[k].status)
           \/ /\ k > 1
              /\ SameBatch(requests[k - 1], requests[k])
              /\ requests[k].status = 429

\* C30: once the content pass has failed, the run makes no question
\* request, inserts no row and goes nowhere but to its exit; the checks
\* are evaluated only after the insert loop has sent every row and the
\* commit has followed, in a run whose two passes both succeeded.
C30_FailFastAndValidateLast ==
    /\ ContentPassFailed =>
           /\ pc \in {"embed_content", "exit"}
           /\ \A k \in DOMAIN requests : requests[k].pass # "questions"
           /\ inserted = 0
           /\ work = {}
           /\ db = {}
           /\ report = <<>>
           /\ checks = None
    /\ (pc \in ValidationPcs \/ report # <<>>) =>
           /\ stages = <<"delete", "embed_content", "embed_questions",
                         "insert">>
                  \o (IF pc = "validate" THEN <<>> ELSE <<"validate">>)
           /\ inserted = Len(ExpectedInserts(sections))
           /\ ~drift => (Cardinality(db) = inserted /\ work = db)
           /\ ~CallFailed
           /\ content_embeddings # None
           /\ question_embeddings # None

C30_Witness ==
    /\ pc = "exit"
    /\ ContentPassFailed
    /\ Len(requests) = 2
    /\ requests[2].status = 429
    /\ Len(sections) = 2
    /\ SumQuestions(sections) = 3
    /\ exit_code = Some(1)

=============================================================================
